---- MODULE Spec2Model ----
(***************************************************************************)
(* State-machine model of src/b_plus_tree.py: class Node (add, split,      *)
(* is_full) and class BPlusTree (__init__, _find, _merge, insert,          *)
(* retrieve).                                                              *)
(*                                                                         *)
(* Python objects live in a heap: heap[n] is the Node object with          *)
(* identity n, and a reference to a Node is the record Ref(n).  A leaf's   *)
(* `values` holds Python lists of user values, written List(<<..>>).       *)
(* Python indexes from 0, sequences here from 1: slot i of the code is     *)
(* slot i+1 of the model.                                                  *)
(***************************************************************************)
EXTENDS Integers, Sequences, FiniteSets

VARIABLES heap, root, inserted, call

vars == <<heap, root, inserted, call>>

\* ---- bounds of the model ------------------------------------------------
MaxOrder == 4
MaxKey == 3
MaxInserts == 5

Orders == 0..MaxOrder
Keys == 0..MaxKey

\* ---- Python values -------------------------------------------------------
None == [tag |-> "None"]
List(items) == [tag |-> "list", items |-> items]
Ref(n) == [tag |-> "node", id |-> n]

\* Node.__init__
Node(order) ==
  [order |-> order, keys |-> <<>>, values |-> <<>>, is_leaf |-> TRUE]

\* Python slices s[:i] and s[i:] for a 0-based i
Take(s, i) == SubSeq(s, 1, i)
Drop(s, i) == SubSeq(s, i + 1, Len(s))

\* is_full as it would be one key early
is_full_early(node) == Len(node.keys) >= node.order - 1

\* Node.is_full
is_full(node) == Len(node.keys) = node.order

\* The for loop of Node.add, at 1-based position i of the list object that
\* self.keys named when the loop started.  The first two branches break; the
\* third appends to that same list object in place and does not break, so
\* the iterator goes on to the element just appended.
RECURSIVE AddLoop(_, _, _, _)
AddLoop(node, key, value, i) ==
  IF i > Len(node.keys) THEN node
  ELSE IF key = node.keys[i]
    THEN [node EXCEPT !.values[i] = List(Append(@.items, value))]
  ELSE IF key < node.keys[i]
    THEN [node EXCEPT
            !.keys = Take(@, i - 1) \o <<key>> \o Drop(@, i - 1),
            !.values = Take(@, i - 1) \o <<List(<<value>>)>> \o Drop(@, i - 1)]
  ELSE IF i = Len(node.keys)
    THEN AddLoop([node EXCEPT !.keys = Append(@, key),
                              !.values = Append(@, List(<<value>>))],
                 key, value, i + 1)
  ELSE AddLoop(node, key, value, i + 1)

\* Node.add as it would be if it never looked for an existing key: the pair
\* always goes in as a new entry, after the keys not greater than `key`.
add_newentry(node, key, value) ==
  LET i == Cardinality({j \in 1..Len(node.keys) : node.keys[j] <= key})
  IN [node EXCEPT
        !.keys = Take(@, i) \o <<key>> \o Drop(@, i),
        !.values = Take(@, i) \o <<List(<<value>>)>> \o Drop(@, i)]

\* Node.add
add(node, key, value) ==
  IF node.keys = <<>>
    THEN [node EXCEPT !.keys = <<key>>, !.values = <<List(<<value>>)>>]
    ELSE AddLoop(node, key, value, 1)

\* split as it would be if the separator were the last key of the left half
split_leftkey(h, n) ==
  LET self == h[n]
      mid == self.order \div 2
      left == [Node(self.order) EXCEPT !.keys = Take(self.keys, mid),
                                       !.values = Take(self.values, mid)]
      right == [Node(self.order) EXCEPT !.keys = Drop(self.keys, mid),
                                        !.values = Drop(self.values, mid)]
  IN IF left.keys = <<>>
       THEN [heap |-> h, raised |-> TRUE]
       ELSE [heap |-> [h EXCEPT ![n] = [self EXCEPT
                                          !.keys = <<left.keys[Len(left.keys)]>>,
                                          !.values = <<Ref(Len(h) + 1),
                                                       Ref(Len(h) + 2)>>,
                                          !.is_leaf = FALSE]]
                       \o <<left, right>>,
             raised |-> FALSE]

\* split as it would be with the midpoint taken from order - 1
split_lowmid(h, n) ==
  LET self == h[n]
      mid == (self.order - 1) \div 2
      left == [Node(self.order) EXCEPT !.keys = Take(self.keys, mid),
                                       !.values = Take(self.values, mid)]
      right == [Node(self.order) EXCEPT !.keys = Drop(self.keys, mid),
                                        !.values = Drop(self.values, mid)]
  IN IF right.keys = <<>>
       THEN [heap |-> h, raised |-> TRUE]
       ELSE [heap |-> [h EXCEPT ![n] = [self EXCEPT
                                          !.keys = <<right.keys[1]>>,
                                          !.values = <<Ref(Len(h) + 1),
                                                       Ref(Len(h) + 2)>>,
                                          !.is_leaf = FALSE]]
                       \o <<left, right>>,
             raised |-> FALSE]

\* Node.split on the object n: allocates left and right, then overwrites n.
\* right.keys[0] raises IndexError when the right half is empty; self is
\* still untouched at that point.
split(h, n) ==
  LET self == h[n]
      mid == self.order \div 2
      left == [Node(self.order) EXCEPT !.keys = Take(self.keys, mid),
                                       !.values = Take(self.values, mid)]
      right == [Node(self.order) EXCEPT !.keys = Drop(self.keys, mid),
                                        !.values = Drop(self.values, mid)]
      l == Len(h) + 1
      r == Len(h) + 2
  IN IF right.keys = <<>>
       THEN [heap |-> h, raised |-> TRUE]
       ELSE [heap |-> [h EXCEPT ![n] = [self EXCEPT
                                          !.keys = <<right.keys[1]>>,
                                          !.values = <<Ref(l), Ref(r)>>,
                                          !.is_leaf = FALSE]]
                       \o <<left, right>>,
             raised |-> FALSE]

\* The for loop of BPlusTree._find: the 1-based slot of the first key
\* greater than `key`, or the slot after the last key.
RECURSIVE FindLoop(_, _, _)
FindLoop(node, key, i) ==
  IF i > Len(node.keys) THEN i
  ELSE IF key < node.keys[i] THEN i
  ELSE FindLoop(node, key, i + 1)

\* _find as it would be with <= for <: a key equal to a separator goes left
RECURSIVE FindLoopLe(_, _, _)
FindLoopLe(node, key, i) ==
  IF i > Len(node.keys) THEN i
  ELSE IF key <= node.keys[i] THEN i
  ELSE FindLoopLe(node, key, i + 1)

_find_le(node, key) ==
  IF node.keys = <<>>
    THEN [raised |-> TRUE, index |-> 0]
    ELSE [raised |-> FALSE, index |-> FindLoopLe(node, key, 1)]

\* BPlusTree._find.  With no keys the loop variable is unbound at the final
\* return, which raises.
_find(node, key) ==
  IF node.keys = <<>>
    THEN [raised |-> TRUE, index |-> 0]
    ELSE [raised |-> FALSE, index |-> FindLoop(node, key, 1)]

\* The while loop shared by insert and retrieve: from object n down to a leaf,
\* remembering the last internal node and the slot taken out of it.
RECURSIVE Descend(_, _, _, _, _)
Descend(h, n, parent, index, key) ==
  IF h[n].is_leaf
    THEN [child |-> n, parent |-> parent, index |-> index, raised |-> FALSE]
    ELSE LET f == _find(h[n], key)
         IN IF f.raised
              THEN [child |-> n, parent |-> parent, index |-> index,
                    raised |-> TRUE]
              ELSE Descend(h, h[n].values[f.index].id, n, f.index, key)

\* The for loop of BPlusTree._merge over parent.keys, after the pop.
RECURSIVE MergeLoop(_, _, _, _)
MergeLoop(parent, pivot, childValues, i) ==
  IF i > Len(parent.keys) THEN parent
  ELSE IF pivot < parent.keys[i]
    THEN [parent EXCEPT
            !.keys = Take(@, i - 1) \o <<pivot>> \o Drop(@, i - 1),
            !.values = Take(@, i - 1) \o childValues \o Drop(@, i - 1)]
  ELSE IF i = Len(parent.keys)
    THEN [parent EXCEPT !.keys = @ \o <<pivot>>,
                        !.values = @ \o childValues]
  ELSE MergeLoop(parent, pivot, childValues, i + 1)

\* _merge as it would be without the scan: pivot and children always go last.
_merge_append(h, p, c, index) ==
  LET popped == [h[p] EXCEPT !.values = Take(@, index - 1) \o Drop(@, index)]
  IN [h EXCEPT ![p] = [popped EXCEPT !.keys = @ \o <<h[c].keys[1]>>,
                                     !.values = @ \o h[c].values]]

\* _merge as it would be without parent.values.pop(index)
_merge_nopop(h, p, c, index) ==
  [h EXCEPT ![p] = MergeLoop(h[p], h[c].keys[1], h[c].values, 1)]

\* _merge as it would be if it spliced the child's two leaves in reverse
_merge_reversed(h, p, c, index) ==
  LET popped == [h[p] EXCEPT !.values = Take(@, index - 1) \o Drop(@, index)]
  IN [h EXCEPT ![p] = MergeLoop(popped, h[c].keys[1],
                                <<h[c].values[2], h[c].values[1]>>, 1)]

\* BPlusTree._merge on the objects p (parent) and c (child); index is the
\* 1-based slot of p that referred to c.
_merge(h, p, c, index) ==
  LET popped == [h[p] EXCEPT !.values = Take(@, index - 1) \o Drop(@, index)]
  IN [h EXCEPT ![p] = MergeLoop(popped, h[c].keys[1], h[c].values, 1)]

\* insert as it would be if it merged into the parent without asking whether
\* the parent is full
insert_anyparent(h, r, key, value) ==
  LET d == Descend(h, r, 0, 0, key)
      h1 == [h EXCEPT ![d.child] = add(@, key, value)]
      s == split(h1, d.child)
      h2 == s.heap
  IN IF d.raised
       THEN [heap |-> h, leaf |-> 0, split |-> 0, merged |-> 0,
             raised |-> TRUE]
     ELSE IF ~is_full(h1[d.child])
       THEN [heap |-> h1, leaf |-> d.child, split |-> 0, merged |-> 0,
             raised |-> FALSE]
     ELSE IF s.raised
       THEN [heap |-> h1, leaf |-> d.child, split |-> d.child, merged |-> 0,
             raised |-> TRUE]
     ELSE IF d.parent # 0
       THEN [heap |-> _merge(h2, d.parent, d.child, d.index),
             leaf |-> d.child, split |-> d.child, merged |-> d.parent,
             raised |-> FALSE]
     ELSE [heap |-> h2, leaf |-> d.child, split |-> d.child, merged |-> 0,
           raised |-> FALSE]

\* insert as it would be if it went on to split a parent that the merge
\* filled
insert_splitparent(h, r, key, value) ==
  LET d == Descend(h, r, 0, 0, key)
      h1 == [h EXCEPT ![d.child] = add(@, key, value)]
      s == split(h1, d.child)
      h2 == s.heap
      h3 == _merge(h2, d.parent, d.child, d.index)
  IN IF d.raised
       THEN [heap |-> h, leaf |-> 0, split |-> 0, merged |-> 0,
             raised |-> TRUE]
     ELSE IF ~is_full(h1[d.child])
       THEN [heap |-> h1, leaf |-> d.child, split |-> 0, merged |-> 0,
             raised |-> FALSE]
     ELSE IF s.raised
       THEN [heap |-> h1, leaf |-> d.child, split |-> d.child, merged |-> 0,
             raised |-> TRUE]
     ELSE IF d.parent # 0 /\ ~is_full(h2[d.parent])
       THEN [heap |-> IF is_full(h3[d.parent])
                        THEN split(h3, d.parent).heap ELSE h3,
             leaf |-> d.child, split |-> d.child, merged |-> d.parent,
             raised |-> FALSE]
     ELSE [heap |-> h2, leaf |-> d.child, split |-> d.child, merged |-> 0,
           raised |-> FALSE]

\* BPlusTree.insert.  The result carries the new heap and what the call did:
\* the node it split (0 if none), the parent it merged into (0 if none), and
\* whether an exception escaped.
insert(h, r, key, value) ==
  LET d == Descend(h, r, 0, 0, key)
      h1 == [h EXCEPT ![d.child] = add(@, key, value)]
      s == split(h1, d.child)
      h2 == s.heap
  IN IF d.raised
       THEN [heap |-> h, leaf |-> 0, split |-> 0, merged |-> 0,
             raised |-> TRUE]
     ELSE IF ~is_full(h1[d.child])
       THEN [heap |-> h1, leaf |-> d.child, split |-> 0, merged |-> 0,
             raised |-> FALSE]
     ELSE IF s.raised
       THEN [heap |-> h1, leaf |-> d.child, split |-> d.child, merged |-> 0,
             raised |-> TRUE]
     ELSE IF d.parent # 0 /\ ~is_full(h2[d.parent])
       THEN [heap |-> _merge(h2, d.parent, d.child, d.index),
             leaf |-> d.child, split |-> d.child, merged |-> d.parent,
             raised |-> FALSE]
     ELSE [heap |-> h2, leaf |-> d.child, split |-> d.child, merged |-> 0,
           raised |-> FALSE]

\* The for loop of BPlusTree.retrieve over the keys of the leaf reached.
RECURSIVE RetrieveLoop(_, _, _)
RetrieveLoop(node, key, i) ==
  IF i > Len(node.keys) THEN None
  ELSE IF key = node.keys[i] THEN node.values[i]
  ELSE RetrieveLoop(node, key, i + 1)

\* retrieve as it would be with a nearest match: the bucket of the first key
\* of the leaf that is not smaller than `key`
RECURSIVE RetrieveLoopGe(_, _, _)
RetrieveLoopGe(node, key, i) ==
  IF i > Len(node.keys) THEN None
  ELSE IF key <= node.keys[i] THEN node.values[i]
  ELSE RetrieveLoopGe(node, key, i + 1)

retrieve_nearest(h, r, key) ==
  LET d == Descend(h, r, 0, 0, key)
  IN IF d.raised
       THEN [heap |-> h, ret |-> None, raised |-> TRUE]
       ELSE [heap |-> h, ret |-> RetrieveLoopGe(h[d.child], key, 1),
             raised |-> FALSE]

\* retrieve as it would be if a miss left an empty bucket behind in the leaf
retrieve_setdefault(h, r, key) ==
  LET d == Descend(h, r, 0, 0, key)
      found == RetrieveLoop(h[d.child], key, 1)
  IN IF d.raised
       THEN [heap |-> h, ret |-> None, raised |-> TRUE]
     ELSE IF found = None
       THEN [heap |-> [h EXCEPT ![d.child] =
                         [@ EXCEPT !.keys = Append(@, key),
                                   !.values = Append(@, List(<<>>))]],
             ret |-> None, raised |-> FALSE]
     ELSE [heap |-> h, ret |-> found, raised |-> FALSE]

\* BPlusTree.retrieve.  The method assigns to locals only, so the heap it
\* leaves is the heap it was given.
retrieve(h, r, key) ==
  LET d == Descend(h, r, 0, 0, key)
  IN IF d.raised
       THEN [heap |-> h, ret |-> None, raised |-> TRUE]
       ELSE [heap |-> h, ret |-> RetrieveLoop(h[d.child], key, 1),
             raised |-> FALSE]

\* ---- the state machine ---------------------------------------------------
\* heap     : the Node objects allocated so far
\* root     : identity of BPlusTree.root, 0 while no tree has been constructed
\* inserted : per key, the values passed to insert under it, in call order
\* call     : the latest call, its key argument and what it returned

NumInserts == LET RECURSIVE Sum(_)
                  Sum(k) == IF k < 0 THEN 0 ELSE Len(inserted[k]) + Sum(k - 1)
              IN Sum(MaxKey)

Init ==
  /\ heap = <<>>
  /\ root = 0
  /\ inserted = [k \in Keys |-> <<>>]
  /\ call = [op |-> "none", key |-> -1, ret |-> None, raised |-> FALSE]

\* BPlusTree.__init__(order): no check of order, self.root = Node(order)
Construct(order) ==
  /\ root = 0
  /\ heap' = <<Node(order)>>
  /\ root' = 1
  /\ call' = [op |-> "new", key |-> -1, ret |-> None, raised |-> FALSE]
  /\ UNCHANGED inserted

\* The code never looks at a value, it only stores it: the n-th insert call
\* passes the value n, so that every stored value tells which call put it
\* there (as the demo driver passes a different value on every insert).
NextValue == NumInserts + 1

Insert(key) ==
  /\ root # 0
  /\ NumInserts < MaxInserts
  /\ LET r == insert(heap, root, key, NextValue)
     IN /\ heap' = r.heap
        /\ call' = [op |-> "insert", key |-> key, ret |-> None,
                    raised |-> r.raised]
  /\ inserted' = [inserted EXCEPT ![key] = Append(@, NextValue)]
  /\ UNCHANGED root

Retrieve(key) ==
  /\ root # 0
  /\ LET r == retrieve(heap, root, key)
     IN /\ heap' = r.heap
        /\ call' = [op |-> "retrieve", key |-> key, ret |-> r.ret,
                    raised |-> r.raised]
  /\ UNCHANGED <<root, inserted>>

Next ==
  \/ \E order \in Orders : Construct(order)
  \/ \E key \in Keys : Insert(key)
  \/ \E key \in Keys : Retrieve(key)

Spec == Init /\ [][Next]_vars

\* ---- what the claims are stated over ------------------------------------
HasTree == root # 0
Order == heap[root].order

\* identities of the Node objects held in the values of n
ChildRefs(n) ==
  {heap[n].values[i].id : i \in {j \in 1..Len(heap[n].values) :
                                   heap[n].values[j].tag = "node"}}

RECURSIVE ReachFrom(_, _)
ReachFrom(S, steps) ==
  LET T == S \cup UNION {ChildRefs(n) : n \in S}
  IN IF steps = 0 \/ T = S THEN S ELSE ReachFrom(T, steps - 1)

\* the nodes reachable from the root
Reachable == IF HasTree THEN ReachFrom({root}, Len(heap)) ELSE {}

\* the depths at which leaves hang below n, n being at depth d
RECURSIVE LeafDepths(_, _)
LeafDepths(n, d) ==
  IF heap[n].is_leaf THEN {d}
  ELSE UNION {LeafDepths(c, d + 1) : c \in ChildRefs(n)}

\* the keys a node holds, as a set
KeySet(n) == {heap[n].keys[i] : i \in 1..Len(heap[n].keys)}

\* the keys stored in reachable leaves
StoredKeys == UNION {KeySet(n) : n \in {m \in Reachable : heap[m].is_leaf}}

\* the keys insert has been called with
InsertedKeys == {k \in Keys : inserted[k] # <<>>}

\* C1: for a tree of order >= 2, retrieve of a key that was inserted returns
\* exactly the values inserted under that key, in insertion order.
C1_RoundTrip ==
  (HasTree /\ Order >= 2 /\ call.op = "retrieve" /\ call.key \in InsertedKeys)
    => (~call.raised /\ call.ret = List(inserted[call.key]))

\* C2: retrieve of a key that was never inserted returns None.
C2_Absence ==
  (HasTree /\ call.op = "retrieve" /\ call.key \notin InsertedKeys)
    => (~call.raised /\ call.ret = None)

\* a retrieve of an absent key lying between two stored keys, below an
\* internal root
C2_Witness ==
  /\ HasTree /\ ~heap[root].is_leaf
  /\ call.op = "retrieve" /\ call.key \notin InsertedKeys /\ call.ret = None
  /\ \E a, b \in InsertedKeys : a < call.key /\ call.key < b

\* C3: after every insert the keys of every reachable node are strictly
\* increasing.
C3_Sorted ==
  \A n \in Reachable :
    \A i \in 1..(Len(heap[n].keys) - 1) : heap[n].keys[i] < heap[n].keys[i + 1]

\* an insert has just promoted a pivot into the root, which now holds
\* several keys
C3_Witness ==
  /\ HasTree /\ call.op = "insert"
  /\ ~heap[root].is_leaf /\ Len(heap[root].keys) >= 2
  /\ call.key \in KeySet(root)

\* C4: after every insert a reachable leaf has one bucket per key, and a
\* reachable internal node has one more child slot than keys, each slot
\* holding a Node.
C4_FanOut ==
  \A n \in Reachable :
    LET node == heap[n]
    IN IF node.is_leaf
         THEN /\ Len(node.values) = Len(node.keys)
              /\ \A i \in 1..Len(node.values) : node.values[i].tag = "list"
         ELSE /\ Len(node.values) = Len(node.keys) + 1
              /\ \A i \in 1..Len(node.values) :
                    /\ node.values[i].tag = "node"
                    /\ node.values[i].id \in 1..Len(heap)

\* a merge has replaced one child slot of the root by two leaves, next to a
\* child that is itself internal
C4_Witness ==
  /\ HasTree /\ call.op = "insert"
  /\ ~heap[root].is_leaf /\ Len(heap[root].values) >= 3
  /\ \E c \in ChildRefs(root) : ~heap[c].is_leaf

\* C5: for a tree of order >= 2, no reachable node holds more than `order`
\* keys after insert returns.
C5_Bounded ==
  (HasTree /\ Order >= 2) =>
    \A n \in Reachable : Len(heap[n].keys) <= heap[n].order

\* a split happened below a parent that already holds `order` keys
C5_Witness ==
  /\ HasTree /\ Order >= 2 /\ call.op = "insert"
  /\ \E n \in Reachable :
       /\ Len(heap[n].keys) = heap[n].order
       /\ \E c \in ChildRefs(n) : ~heap[c].is_leaf

\* C6: a tree of order < 2 is never constructed, so nothing is ever inserted
\* into one.
C6_ConstructionContract ==
  HasTree => Order >= 2

\* C7: for a tree of order >= 2, all reachable leaves are at the same depth.
C7_Balanced ==
  (HasTree /\ Order >= 2) => Cardinality(LeafDepths(root, 0)) = 1

\* the heap after `value` has been appended to the bucket that a reachable
\* leaf holds for `key`, nothing else being touched
AppendedTo(key, value) ==
  {[heap EXCEPT ![n].values[i] = List(Append(@.items, value))] :
     <<n, i>> \in {<<m, j>> \in Reachable \X (1..MaxInserts) :
                     /\ heap[m].is_leaf
                     /\ j <= Len(heap[m].keys)
                     /\ heap[m].keys[j] = key}}

\* C8: for a tree of order >= 2, inserting a key that is already stored
\* appends the value to that key's bucket and changes nothing else: no node
\* is split, merged, allocated or otherwise modified, and retrieve of the
\* key then returns the former bucket followed by the new value.
C8_DuplicateAppends ==
  [][(HasTree /\ Order >= 2 /\ call'.op = "insert"
        /\ call'.key \in StoredKeys)
       => LET key == call'.key
              value == NextValue
          IN /\ heap' \in AppendedTo(key, value)
             /\ insert(heap, root, key, value).split = 0
             /\ insert(heap, root, key, value).merged = 0
             /\ retrieve(heap', root', key).ret =
                  List(Append(retrieve(heap, root, key).ret.items, value))]_vars

\* a second value has just been inserted under a key that sits in a leaf
\* below an internal root
C8_Witness ==
  /\ HasTree /\ Order >= 2 /\ ~heap[root].is_leaf
  /\ call.op = "insert" /\ Len(inserted[call.key]) >= 2

\* the inserted keys in increasing order, from key k on
RECURSIVE SortedFrom(_)
SortedFrom(k) ==
  IF k > MaxKey THEN <<>>
  ELSE (IF inserted[k] # <<>> THEN <<k>> ELSE <<>>) \o SortedFrom(k + 1)

Distinct == \A k \in Keys : Len(inserted[k]) <= 1

\* the shape C9 describes after the N-th distinct key, N being the order
FirstSplitShape ==
  LET N == Order
      sorted == SortedFrom(0)
      r == heap[root]
  IN /\ ~r.is_leaf
     /\ r.keys = <<sorted[(N \div 2) + 1]>>
     /\ Len(r.values) = 2
     /\ heap[r.values[1].id].is_leaf
     /\ heap[r.values[1].id].keys = Take(sorted, N \div 2)
     /\ heap[r.values[2].id].is_leaf
     /\ heap[r.values[2].id].keys = Drop(sorted, N \div 2)

\* C9: on a tree of order N >= 2 the root stays a leaf while fewer than N
\* distinct keys are in, and the N-th distinct key splits it once: the root
\* holds the (N div 2)-th smallest key, its left child the N div 2 smallest
\* keys, its right child the rest, and every key is retrieved with its
\* single-element bucket.
C9_FirstSplit ==
  (HasTree /\ Order >= 2 /\ Distinct) =>
    /\ NumInserts < Order => heap[root].is_leaf
    /\ NumInserts = Order =>
         /\ FirstSplitShape
         /\ \A k \in InsertedKeys :
              retrieve(heap, root, k).ret = List(inserted[k])

\* C10: a retrieve call leaves the root reference and every node unchanged.
C10_RetrieveReadOnly ==
  [][call'.op = "retrieve" => (heap' = heap /\ root' = root)]_vars

\* a retrieve that descended from an internal root and missed
C10_Witness ==
  /\ HasTree /\ ~heap[root].is_leaf /\ StoredKeys # {}
  /\ call.op = "retrieve" /\ call.ret = None /\ call.key \notin StoredKeys

\* ---- an insert call seen as a step ----------------------------------------
\* In a step that is an insert call: the descent the call makes in the state
\* it starts from, and what the call does.
InsertCall == HasTree /\ call'.op = "insert"
Going == Descend(heap, root, 0, 0, call'.key)
Doing == insert(heap, root, call'.key, NextValue)

\* the call split the leaf it reached: two Node objects were allocated
Splits == InsertCall /\ Len(heap') > Len(heap)

\* the two nodes a split allocates, and the separator it leaves in the node
NewLeft == Len(heap) + 1
NewRight == Len(heap) + 2
Separator == heap'[NewRight].keys[1]

\* C11: whenever a leaf that has a parent is split during insert, its
\* separator key is in the parent's keys when insert returns (stated for
\* the trees of order >= 2, the only ones meant to exist).
C11_PivotFloats ==
  [][(Splits /\ Order >= 2 /\ Going.parent # 0)
       => Separator \in {heap'[Going.parent].keys[i] :
                           i \in 1..Len(heap'[Going.parent].keys)}]_vars

\* the keys stored in the leaves below node n
RECURSIVE LeafKeys(_)
LeafKeys(n) ==
  IF heap[n].is_leaf THEN KeySet(n)
  ELSE UNION {LeafKeys(c) : c \in ChildRefs(n)}

\* C12: for every reachable internal node and every child slot i, the keys
\* stored in the leaves under slot i are below keys[i] (when there is one)
\* and at least keys[i-1] (when there is one); and the descent for a stored
\* key ends in the leaf that holds it.
C12_KeyRanges ==
  /\ \A n \in {m \in Reachable : ~heap[m].is_leaf} :
       \A i \in 1..Len(heap[n].values) :
         \A k \in LeafKeys(heap[n].values[i].id) :
           /\ i <= Len(heap[n].keys) => k < heap[n].keys[i]
           /\ i > 1 => k >= heap[n].keys[i - 1]
  /\ \A k \in StoredKeys :
       /\ ~Descend(heap, root, 0, 0, k).raised
       /\ k \in KeySet(Descend(heap, root, 0, 0, k).child)

\* after an insert the root holds two separators or more, its leaves hang
\* at two depths and four keys or more are stored
C12_Witness ==
  /\ HasTree /\ call.op = "insert" /\ ~heap[root].is_leaf
  /\ Len(heap[root].keys) >= 2
  /\ Cardinality(LeafDepths(root, 0)) = 2
  /\ Cardinality(StoredKeys) >= 4

\* C13: when insert splits a leaf reached through slot `index` of a parent
\* holding fewer than `order` keys, the parent ends with one more key and one
\* more child slot: the separator at key position `index`, the two new leaves
\* in slots index and index+1 in left/right order, the other keys and
\* children in their former order; and the split node is no longer reachable.
C13_Promotion ==
  [][(Splits /\ Going.parent # 0
        /\ Len(heap[Going.parent].keys) < heap[Going.parent].order)
       => LET p == Going.parent
              i == Going.index
          IN /\ heap'[p].keys =
                  Take(heap[p].keys, i - 1) \o <<Separator>>
                    \o Drop(heap[p].keys, i - 1)
             /\ heap'[p].values =
                  Take(heap[p].values, i - 1) \o <<Ref(NewLeft), Ref(NewRight)>>
                    \o Drop(heap[p].values, i)
             /\ heap'[p].is_leaf = heap[p].is_leaf
             /\ heap'[NewLeft].is_leaf /\ heap'[NewRight].is_leaf
             /\ \A j \in 1..Len(heap'[NewLeft].keys) :
                  heap'[NewLeft].keys[j] < Separator
             /\ \A j \in 1..Len(heap'[NewRight].keys) :
                  heap'[NewRight].keys[j] >= Separator
             /\ Going.child \notin Reachable']_vars

\* the node split last hangs nowhere in the tree any more: its two leaves,
\* the newest nodes, sit side by side under another node, and the key just
\* inserted is in one of them
C13_Witness ==
  /\ HasTree /\ call.op = "insert" /\ Len(heap) >= 5
  /\ call.key \in KeySet(Len(heap) - 1) \cup KeySet(Len(heap))
  /\ \E c \in (1..Len(heap)) \ Reachable :
       heap[c].values = <<Ref(Len(heap) - 1), Ref(Len(heap))>>
  /\ \E p \in Reachable, i \in 1..MaxInserts :
       /\ i < Len(heap[p].values)
       /\ heap[p].values[i] = Ref(Len(heap) - 1)
       /\ heap[p].values[i + 1] = Ref(Len(heap))

C15_NoFullNode ==
  (HasTree /\ Order >= 2) =>
    \A n \in Reachable : Len(heap[n].keys) # heap[n].order

\* the nodes that a split in this step turned into the parent of the two new
\* nodes
SplitNodes ==
  {n \in 1..Len(heap) : heap'[n].values = <<Ref(NewLeft), Ref(NewRight)>>}

\* C16: on a tree of order >= 2, split runs only on the leaf the descent
\* reached, and only when that leaf holds exactly `order` keys at that moment
\* (after add); it never runs on a node that is not full or is internal.
C16_SplitPrecondition ==
  [][(InsertCall /\ Order >= 2)
       => /\ (Doing.split # 0) <=> (Len(heap') > Len(heap))
          /\ Len(heap') > Len(heap) =>
               LET c == Going.child
                   full == add(heap[c], call'.key, NextValue)
               IN /\ Len(heap') = Len(heap) + 2
                  /\ SplitNodes = {c}
                  /\ Doing.split = c
                  /\ heap[c].is_leaf
                  /\ Len(full.keys) = full.order
                  /\ heap'[NewLeft].keys \o heap'[NewRight].keys = full.keys
                  /\ \A n \in 1..Len(heap) :
                       heap[n].is_leaf # heap'[n].is_leaf => n = c]_vars

\* the newest two nodes are the halves of a leaf that held `order` keys, the
\* key just inserted among them
C16_Witness ==
  /\ HasTree /\ Order >= 3 /\ call.op = "insert" /\ Len(heap) >= 3
  /\ call.key \in KeySet(Len(heap) - 1) \cup KeySet(Len(heap))
  /\ Len(heap[Len(heap) - 1].keys) + Len(heap[Len(heap)].keys) = Order

Slots ==
  UNION {{<<p, i>> : i \in 1..Len(heap[p].values)} :
           p \in {m \in Reachable : ~heap[m].is_leaf}}

\* C18: after every insert the reachable nodes form a tree: every reachable
\* node but the root sits in exactly one child slot of one reachable internal
\* node, the root in none, and no node is reachable from its own children.
C18_TreeShape ==
  HasTree =>
    LET slots == Slots
        reach == Reachable
        SlotsOf(n) == {s \in slots : heap[s[1]].values[s[2]] = Ref(n)}
    IN /\ SlotsOf(root) = {}
       /\ \A n \in reach \ {root} : Cardinality(SlotsOf(n)) = 1
       /\ \A n \in reach : n \notin ReachFrom(ChildRefs(n), Len(heap))

\* a merge has copied the two leaves of a split node into the root, and the
\* split node, which still refers to them, is no longer reachable
C18_Witness ==
  /\ HasTree /\ call.op = "insert"
  /\ \E c \in (1..Len(heap)) \ Reachable :
       /\ ~heap[c].is_leaf
       /\ ChildRefs(c) \subseteq ChildRefs(root)

\* the smallest key stored in the leaves below n
MinLeafKey(n) == CHOOSE k \in LeafKeys(n) : \A j \in LeafKeys(n) : k <= j

\* C19: on a tree of order >= 2, every key keys[i] of every reachable
\* internal node is stored in a leaf and is the smallest key stored under
\* child slot i+1.
C19_SeparatorsLive ==
  (HasTree /\ Order >= 2) =>
    \A n \in {m \in Reachable : ~heap[m].is_leaf} :
      \A i \in 1..Len(heap[n].keys) :
        /\ heap[n].keys[i] \in StoredKeys
        /\ LeafKeys(heap[n].values[i + 1].id) # {}
        /\ heap[n].keys[i] = MinLeafKey(heap[n].values[i + 1].id)

\* after an insert the root holds two separators or more and has an
\* internal child with two stored keys or more below it
C19_Witness ==
  /\ HasTree /\ Order >= 2 /\ call.op = "insert"
  /\ Len(heap[root].keys) >= 2
  /\ \E c \in ChildRefs(root) : ~heap[c].is_leaf /\ Cardinality(LeafKeys(c)) >= 2

\* C20: on a tree of order >= 2, every reachable node has a key, except the
\* root before the first insert; every internal node has two children or
\* more; and no insert or retrieve call raises.
C20_NoEmptyNodes ==
  (HasTree /\ Order >= 2) =>
    /\ \A n \in Reachable :
         /\ Len(heap[n].keys) >= 1 \/ (n = root /\ NumInserts = 0)
         /\ ~heap[n].is_leaf => Len(heap[n].values) >= 2
    /\ ~call.raised

\* on a tree of order 2 or 3 whose root has been split, a leaf holds a
\* single key and a retrieve has run through the internal root and hit
C20_Witness ==
  /\ HasTree /\ Order \in {2, 3} /\ ~heap[root].is_leaf
  /\ call.op = "retrieve" /\ call.ret # None
  /\ \E n \in Reachable : heap[n].is_leaf /\ Len(heap[n].keys) = 1

====
